---- MODULE Spec2Model ----
(***************************************************************************)
(* A model of dcli (src/dcli.py): the distributed command-execution engine *)
(* that fans a command, a file copy or an ssh key operation out to a list  *)
(* of hosts, one WorkThread per host, in batches, and collects a status    *)
(* map, an output map and a list of unreachable hosts.                     *)
(*                                                                         *)
(* main, copyAndExecute, run_workThread, WorkThread.run and                *)
(* WorkThread.runCommand are modelled as processes that share the          *)
(* variables below.  The environment (what an ssh/scp subprocess returns,  *)
(* how many lines it prints, whether the local wait on it expires, what    *)
(* the known_hosts file holds) is a nondeterministic choice.               *)
(***************************************************************************)
EXTENDS Integers, Sequences, FiniteSets, TLC

\* ------------------------------------------------------------------ bounds
\* the largest number of hosts given on the command line
MaxHosts == 2
\* how many edits away from the plain run "dcli -c hosts cmd" a run is
MaxOptions == 2
\* the value of --maxlines in the modelled runs (dcli's default is 100000)
MaxLines == 1
\* the retries that the threads of one call of copyAndExecute ask for
MaxWarnings == 1
\* sampling rounds after which an endless --vmstat run is no longer followed
MaxRounds == 2
\* the largest number of hosts of the runs that only set a batch size
MaxBatchHosts == 4
\* the retries that the threads of one call ask for in the key push runs
MaxRetries == 2
\* the polls of the interrupt handler before its forced kill (dcli sleeps
\* 0.2 s between the polls of a wait of about 2 s)
GracePolls == 2
\* the longest line of a host-list file, in characters
MaxLineChars == 2
\* the most lines of a host-list file
MaxFileLines == 2
\* the longest value of -c, in characters
MaxListChars == 3
\* the largest descriptor limit update_max_threads is called with
MaxFdLimit == 40
\* the most words of a --vmstat value
MaxWords == 4
MaxNames == 2

Hosts == 1..(IF MaxBatchHosts > MaxHosts THEN MaxBatchHosts ELSE MaxHosts)

\* line counts of a subprocess: every count up to one line over the cap, or
\* only no line and one line over the cap
AllLines == 0..(MaxLines + 1)
CoarseLines == {0, MaxLines + 1}

\* the calls of copyAndExecute after which a sampling run is no longer followed
MaxCalls == MaxRounds * MaxHosts

\* a value that is no exit status (Python's None; a host without a result)
None == -1000

\* exit statuses a subprocess can end with: success, a plain failure, the
\* status of timeout(1), the status of ssh itself, and a subprocess that was
\* killed by signal 9 (Popen reports -9)
RetCodes == {0, 1, 124, 255, -9}

\* ------------------------------------------------------------- the options
\* values of --batchsize (0 is optparse's default: the option was not given)
BatchSizes == -1..MaxHosts

\* values of --vmstat: not given, "" (one sample), "3" (delay 3, endless),
\* "3 2" (delay 3, two samples), "-s" (not periodic)
VmstatOps == {"none", "", "3", "3 2", "-s"}

\* what `ulimit -n` says: unreadable, or a number of descriptors
FdLimits == {None, 16, 17, 1024}

\* the host-list file of -g: not given, not readable, or a file naming host 1
GroupFiles == {"none", "unreadable", "host1"}

\* the fields of the options object that the modelled runs read (optparse's
\* options, main's view of the file system, and -c given as a host count)
\*   args: command words follow the options      file: -f       exec_file: -x
\*   destfile: -d      pushKey: -k      konepw: --key-with-one-password
\*   dropKey: --unkey  serializeOps: --serial     maxThds: --batchsize
\*   batchsizeGiven: --batchsize is on the command line
\*   showBanner: --showbanner
\*   timeout: --timeout given    listNegatives: -n    regexp: -r    list: -t
\*   vmstatOps: --vmstat   groupfile: -g   ncells: -c 1,...,ncells
\*   sshExists, scpExists: os.path.exists(SSH), os.path.exists(SCP)
\*   fdLimit: the descriptor limit
\* the edits of a command line: an option is added (with a value), or the
\* command words are replaced by what runs instead of them
Edits ==
    {[f \in {name} |-> TRUE] :
        name \in {"file", "pushKey", "konepw", "dropKey", "serializeOps",
                  "timeout", "listNegatives", "regexp", "list",
                  "showBanner"}}
    \cup {[f \in {name} |-> FALSE] :
             name \in {"args", "sshExists", "scpExists"}}
    \cup {[f \in {"destfile"} |-> v] : v \in {"file", "dir/"}}
    \cup {[batchsizeGiven |-> TRUE, maxThds |-> v] : v \in BatchSizes}
    \cup {[f \in {"groupfile"} |-> v] : v \in GroupFiles \ {"none"}}
    \cup {[f \in {"fdLimit"} |-> v] : v \in FdLimits \ {1024}}
    \cup {[args |-> FALSE, vmstatOps |-> v] : v \in VmstatOps \ {"none"}}
    \cup {[args |-> FALSE, exec_file |-> TRUE]}
    \cup {[exec_file |-> TRUE]}
    \cup {[vmstatOps |-> ""]}

\* the options o with the edit e made
Edit(o, e) == [f \in DOMAIN o |-> IF f \in DOMAIN e THEN e[f] ELSE o[f]]

\* the plain run: dcli -c 1,...,n cmd
PlainRun(n) ==
    [ args |-> TRUE, file |-> FALSE, exec_file |-> FALSE, destfile |-> "none",
      pushKey |-> FALSE, konepw |-> FALSE, dropKey |-> FALSE,
      serializeOps |-> FALSE, batchsizeGiven |-> FALSE, maxThds |-> 0,
      timeout |-> FALSE,
      listNegatives |-> FALSE, regexp |-> FALSE, list |-> FALSE,
      showBanner |-> FALSE,
      vmstatOps |-> "none", groupfile |-> "none", ncells |-> n,
      sshExists |-> TRUE, scpExists |-> TRUE, fdLimit |-> 1024 ]

\* the runs that a plain run becomes by at most k edits
RECURSIVE RunsWithin(_)
RunsWithin(k) ==
    IF k = 0 THEN {PlainRun(n) : n \in 0..MaxHosts}
    ELSE LET S == RunsWithin(k - 1)
         IN  S \cup {Edit(o, e) : o \in S, e \in Edits}

Runs == RunsWithin(MaxOptions)

\* ------------------------------------------------------- pure functions
\* str.split() of the modelled --vmstat values
Split(str) ==
    CASE str = ""    -> << >>
      [] str = "3"   -> <<"3">>
      [] str = "3 2" -> <<"3", "2">>
      [] str = "-s"  -> <<"-s">>
      [] OTHER       -> << >>

\* getInt: the number a word spells, None if it spells none
getInt(num_str) ==
    CASE num_str = "0"  -> 0
      [] num_str = "1"  -> 1
      [] num_str = "2"  -> 2
      [] num_str = "3"  -> 3
      [] num_str = "-1" -> -1
      [] OTHER          -> None

\* the options of vmstat that do not sample periodically
\* (NonPeriodicFew: -s is taken for a periodic option)
NonPeriodicFew == {"-f", "-m", "-p", "-D", "-d", "-V"}
NonPeriodic == {"-f", "-s", "-m", "-p", "-D", "-d", "-V"}

\* checkVmstat's loop over the words from word i on, with the delay and the
\* repeat count found so far (None: not found); its result is the repeat count
RECURSIVE checkVmstatFrom(_, _, _, _)
checkVmstatFrom(vmOpts, i, delay, repeat) ==
    IF i > Len(vmOpts)
    THEN IF delay # None
         THEN (IF repeat = None THEN -1 ELSE repeat)
         ELSE 1
    ELSE LET op  == vmOpts[i]
             num == getInt(op)
         IN  IF op \in NonPeriodic THEN None
             ELSE IF num # None /\ num < 1 THEN None
             ELSE IF num # None
                  THEN IF repeat # None THEN None
                       ELSE IF delay # None
                            THEN checkVmstatFrom(vmOpts, i + 1, delay, num)
                            ELSE checkVmstatFrom(vmOpts, i + 1, num, repeat)
                  ELSE checkVmstatFrom(vmOpts, i + 1, delay, repeat)

checkVmstat(vmOpts) == checkVmstatFrom(vmOpts, 1, None, None)

\* a text is the sequence of its characters; the characters of the modelled
\* host-list files and -c values: a blank, the comment sign, the comma and
\* two letters
Chars == {" ", "#", ",", "a", "b"}
TextsUpTo(n) == UNION {[1..k -> Chars] : k \in 0..n}

\* str.strip(): the text without the blanks at its ends
RECURSIVE lstrip(_)
lstrip(str) ==
    IF Len(str) > 0 /\ Head(str) = " " THEN lstrip(Tail(str)) ELSE str
RECURSIVE rstrip(_)
rstrip(str) ==
    IF Len(str) > 0 /\ str[Len(str)] = " "
    THEN rstrip(SubSeq(str, 1, Len(str) - 1))
    ELSE str
strip(str) == rstrip(lstrip(str))

\* str.split(","): the pieces between the commas, from character i on, with
\* the piece read so far
RECURSIVE splitFrom(_, _, _)
splitFrom(str, i, piece) ==
    IF i > Len(str) THEN <<piece>>
    ELSE IF str[i] = "," THEN <<piece>> \o splitFrom(str, i + 1, << >>)
    ELSE splitFrom(str, i + 1, Append(piece, str[i]))
splitComma(str) == splitFrom(str, 1, << >>)

\* buildCellList's loop over the lines of the file: every line is stripped
\* and kept unless it is empty then or starts with #
hostLines(lines) ==
    SelectSeq([i \in 1..Len(lines) |-> strip(lines[i])],
              LAMBDA line : Len(line) > 0 /\ line[1] # "#")

\* buildCellList's loop over the values of -c from value i on: every piece
\* between commas, stripped
RECURSIVE inlineEntriesFrom(_, _)
inlineEntriesFrom(cells, i) ==
    IF i > Len(cells) THEN << >>
    ELSE LET cellSplit == splitComma(cells[i])
         IN  [j \in 1..Len(cellSplit) |-> strip(cellSplit[j])]
                 \o inlineEntriesFrom(cells, i + 1)
inlineEntries(cells) == inlineEntriesFrom(cells, 1)

\* the lines of the host-list file that name a host
FileLines(groupfile) == IF groupfile = "host1" THEN <<1>> ELSE << >>

\* the hosts of -c
InlineCells(n) == [i \in 1..n |-> i]

\* buildCellList's last loop: the first occurrences of the entries of
\* celllist from entry i on, appended to the unique entries found so far
RECURSIVE uniqueFrom(_, _, _)
uniqueFrom(celllist, i, uniqueCellList) ==
    IF i > Len(celllist) THEN uniqueCellList
    ELSE IF \E j \in 1..Len(uniqueCellList) : uniqueCellList[j] = celllist[i]
         THEN uniqueFrom(celllist, i + 1, uniqueCellList)
         ELSE uniqueFrom(celllist, i + 1, Append(uniqueCellList, celllist[i]))

\* buildCellList: the file's hosts, then the inline hosts, without repeats
\* (buildCellListInlineFirst: the inline hosts go first)
buildCellListInlineFirst(cells, lines) == uniqueFrom(cells \o lines, 1, << >>)
buildCellList(cells, lines) == uniqueFrom(lines \o cells, 1, << >>)

\* update_max_threads: the batch size derived from the descriptor limit, or
\* 0 when the batch size is left as it is (the function returns False)
FDS_PER_CELL == 7
RESERVED_FDS == 10
update_max_threads(o) ==
    IF o.maxThds # 0 \/ o.serializeOps THEN 0
    ELSE IF o.fdLimit = None THEN 0
    ELSE LET max_threads == (o.fdLimit - RESERVED_FDS) \div FDS_PER_CELL
         IN  IF max_threads < 1 THEN 0 ELSE max_threads

\* --------------------------------------------------- main: the option checks
\* main's command after the option checks is not empty
HasCommand(o) == o.args \/ o.vmstatOps # "none"

\* the repeat count of a sampling run, None for any other run
VmstatCountOf(o) ==
    IF o.vmstatOps = "none" THEN None ELSE checkVmstat(Split(o.vmstatOps))

\* the option checks of main that raise UsageError
UsageErrorRaised(o, hostlist) ==
    \/ ~o.args /\ ~(o.list \/ o.exec_file \/ o.file \/ o.pushKey \/ o.konepw
                    \/ o.dropKey \/ o.vmstatOps # "none")
    \/ o.args /\ o.exec_file
    \/ o.file /\ o.exec_file
    \/ o.listNegatives /\ o.regexp
    \/ o.vmstatOps # "none" /\ (o.exec_file \/ o.file \/ o.args)
    \/ o.vmstatOps # "none" /\ (o.listNegatives \/ o.regexp)
    \/ o.maxThds # 0 /\ o.serializeOps
    \/ o.maxThds # 0 /\ o.maxThds < 1
    \/ Len(hostlist) = 0
    \/ o.destfile # "none" /\ ~(o.exec_file \/ o.file)

\* buildCellList raises Error: the host-list file cannot be opened
CellListError(o) == o.groupfile = "unreadable"

\* copyAndExecute raises Error: a program it needs does not exist
ProgramMissing(o) ==
    \/ (HasCommand(o) \/ o.exec_file) /\ ~o.sshExists
    \/ (o.file \/ o.exec_file) /\ ~o.scpExists

\* ---------------------------------------------------------------- state
VARIABLES
    options,          \* the options object (update_max_threads sets maxThds)
    argv,             \* the options as the command line gave them
    env,              \* what the subprocesses of this run may do: lineCounts,
                      \* the numbers of lines one prints; retries, how many
                      \* retries the threads of one call may ask for
    updateLock,       \* copyAndExecute's updateLock: the threads between
                      \* acquire() and release(), each with the number of
                      \* maps it has written
    handler,          \* copyAndExecute's handler of KeyboardInterrupt: where
                      \* it is (at), the entry of waitList it looks at (i),
                      \* the polls left before the forced kill (t) and the
                      \* signals it has sent so far
    pc,               \* where the main thread is
    clist,            \* main: the host list
    vmstatCount,      \* main: the repeat count of a sampling run, or None
    batch,            \* main: batch mode is on
    batchBegin,       \* main: the first host of the current slice, from 0
    batchEnd,         \* main: the end of the current slice
    sampleCount,      \* main: 1 for the first sample, 2 afterwards
    loopCount,        \* main: the sampling rounds done
    returnValue,      \* main: the accumulated return value
    result,           \* what main returned; None while it runs (for the
                      \* destination taken alone: the two remote paths)
    cells,            \* copyAndExecute: the hosts of this pass
    round,            \* copyAndExecute: 1 the main pass, 2 the retry pass
    all_cells,        \* run_workThread: the hosts to start a thread for
    idx,              \* run_workThread: the next entry of all_cells, from 1
    threads,          \* the WorkThreads of this call, in order of creation
    waitList,         \* copyAndExecute: the threads to join (by position)
    status,           \* copyAndExecute: host -> exit status
    output,           \* copyAndExecute: host -> output lines
    badCells,         \* copyAndExecute: the unreachable hosts
    cells_need_retry, \* copyAndExecute: hosts with an offending key
    warned,           \* history: per pass of this call, the hosts whose
                      \* captured output held an offending-key warning
                      \* while a shared password was in use
    orphans,          \* subprocesses still alive whose thread has ended
    calls,            \* history: the host slice of every copyAndExecute call
    started,          \* history: host -> threads started for it in this run
    recorded,         \* history: host -> the status last returned for it
    reported,         \* history: the hosts returned in some unreachable list
    written           \* the keys of copyAndExecute's output in the order in
                      \* which they were inserted, as the dict keeps them

mainVars == <<options, argv, env, handler, updateLock,
              pc, clist, vmstatCount, batch, batchBegin,
              batchEnd, sampleCount, loopCount, returnValue, result>>
callVars == <<cells, round, all_cells, idx, threads, waitList, status, output,
              badCells, cells_need_retry, warned>>
histVars == <<calls, started, recorded, reported, written>>
vars == <<mainVars, callVars, orphans, histVars>>

\* the empty map
EmptyMap == [h \in {} |-> 0]

\* the entries of a list
Elems(list) == {list[i] : i \in 1..Len(list)}

\* the values a call of copyAndExecute starts with
NoCall ==
    /\ cells = << >> /\ round = 0 /\ all_cells = << >> /\ idx = 0
    /\ threads = << >> /\ waitList = << >>
    /\ status = EmptyMap /\ output = EmptyMap
    /\ badCells = << >> /\ cells_need_retry = << >>
    /\ warned = <<{}, {}>>

\* the handler of KeyboardInterrupt before an interrupt
NoHandler == [at |-> "none", i |-> 0, t |-> 0, stage |-> 0, signals |-> << >>]

\* the state when main is entered
Start ==
    /\ pc = "start"
    /\ handler = NoHandler
    /\ updateLock = << >>
    /\ clist = << >> /\ vmstatCount = None /\ batch = FALSE
    /\ batchBegin = 0 /\ batchEnd = 0 /\ sampleCount = 1 /\ loopCount = 0
    /\ returnValue = 0 /\ result = None
    /\ NoCall
    /\ orphans = 0
    /\ calls = << >>
    /\ started = [h \in Hosts |-> 0]
    /\ recorded = EmptyMap
    /\ written = << >>
    /\ reported = {}

\* the runs that do not sample periodically, with subprocesses that print
\* nothing or too much
Init ==
    /\ options \in {o \in Runs : VmstatCountOf(o) = None}
    /\ argv = options
    /\ env = [lineCounts |-> CoarseLines, retries |-> MaxWarnings]
    /\ Start

\* the runs "dcli --batchsize b -c 1,...,n cmd" with b <= n, alone or with
\* --timeout or -k, and subprocesses that print nothing
BatchRuns ==
    {Edit(Edit(PlainRun(n), [batchsizeGiven |-> TRUE, maxThds |-> b]), e) :
        n \in 1..MaxBatchHosts, b \in 1..MaxBatchHosts,
        e \in {[args |-> TRUE], [timeout |-> TRUE], [pushKey |-> TRUE]}}

InitBatch ==
    /\ options \in {o \in BatchRuns : o.maxThds <= o.ncells}
    /\ argv = options
    /\ env = [lineCounts |-> {0}, retries |-> 0]
    /\ Start

\* the key push runs: --key-with-one-password alone, without a command,
\* with --timeout or with --serial, and -k (no shared password, no retry);
\* subprocesses that print nothing but the warning
RetryRuns ==
    {Edit(Edit(PlainRun(n), [konepw |-> TRUE]), e) :
        n \in 1..MaxHosts,
        e \in {[konepw |-> TRUE], [args |-> FALSE], [timeout |-> TRUE],
               [serializeOps |-> TRUE]}}
    \cup {Edit(PlainRun(n), [pushKey |-> TRUE]) : n \in 1..MaxHosts}

InitRetry ==
    /\ options \in RetryRuns
    /\ argv = options
    /\ env = [lineCounts |-> {0}, retries |-> MaxRetries]
    /\ Start

\* the runs whose output is looked at line by line: a command, a file that
\* is copied and executed, --timeout, --showbanner, -k and
\* --key-with-one-password; subprocesses print any number of lines up to
\* one over the cap
LineRuns ==
    {Edit(PlainRun(n), e) :
        n \in 1..MaxHosts,
        e \in {[args |-> TRUE], [args |-> FALSE, exec_file |-> TRUE],
               [timeout |-> TRUE], [showBanner |-> TRUE],
               [pushKey |-> TRUE], [konepw |-> TRUE]}}

InitLines ==
    /\ options \in LineRuns
    /\ argv = options
    /\ env = [lineCounts |-> AllLines, retries |-> MaxWarnings]
    /\ Start

\* the runs with --timeout: alone, with --serial, -k,
\* --key-with-one-password, a file that is copied and executed, or
\* --batchsize 1; subprocesses that print nothing
TimeoutRuns ==
    {Edit(Edit(PlainRun(n), [timeout |-> TRUE]), e) :
        n \in 1..MaxHosts,
        e \in {[timeout |-> TRUE], [serializeOps |-> TRUE],
               [pushKey |-> TRUE], [konepw |-> TRUE],
               [args |-> FALSE, exec_file |-> TRUE],
               [batchsizeGiven |-> TRUE, maxThds |-> 1]}}

InitTimeout ==
    /\ options \in TimeoutRuns
    /\ argv = options
    /\ env = [lineCounts |-> {0}, retries |-> MaxWarnings]
    /\ Start

\* the periodic sampling runs "dcli -c 1,...,n --vmstat v": one sample, endless
\* or two samples; alone, with a batch size, with a descriptor limit that
\* gives the batch size 1, with --timeout or with -k; subprocesses that
\* print nothing
SamplingRuns ==
    {Edit(Edit(PlainRun(n), [args |-> FALSE, vmstatOps |-> v]), e) :
        n \in 1..MaxHosts, v \in {"", "3", "3 2"},
        e \in {[args |-> FALSE], [timeout |-> TRUE], [pushKey |-> TRUE],
               [fdLimit |-> 17]}
              \cup {[batchsizeGiven |-> TRUE, maxThds |-> b] :
                       b \in 1..MaxHosts}}

InitSampling ==
    /\ options \in SamplingRuns
    /\ argv = options
    /\ env = [lineCounts |-> {0}, retries |-> 0]
    /\ Start

\* ------------------------------------------------------------------- main
\* main up to its loop: the option checks, the host list, the batch size
MainStart ==
    /\ pc = "start"
    /\ LET hostlist == buildCellList(InlineCells(options.ncells),
                                     FileLines(options.groupfile))
           auto == IF Len(hostlist) > 1 THEN update_max_threads(options) ELSE 0
       IN  IF CellListError(options) \/ UsageErrorRaised(options, hostlist)
           THEN /\ pc' = "done"
                /\ result' = 2
                /\ UNCHANGED <<options, clist, vmstatCount, batch>>
           ELSE /\ pc' = "loop"
                /\ clist' = hostlist
                /\ vmstatCount' = VmstatCountOf(options)
                /\ batch' = (options.maxThds # 0 \/ auto # 0)
                /\ options' = IF auto # 0
                              THEN [options EXCEPT !.maxThds = auto]
                              ELSE options
                /\ UNCHANGED result
    /\ UNCHANGED <<argv, env, handler, updateLock,
                   batchBegin, batchEnd, sampleCount, loopCount,
                   returnValue>>
    /\ UNCHANGED <<callVars, orphans, histVars>>

\* the end of the slice that starts at begin
\* (SliceEndWhole: the batch size is not looked at)
SliceEndWhole(maxThds, len, begin) == len
SliceEnd(maxThds, len, begin) ==
    IF maxThds = 0 \/ maxThds >= len - begin THEN len ELSE begin + maxThds

\* the top of main's loop: the next slice of the host list
MainLoop ==
    /\ pc = "loop"
    /\ batchEnd' = SliceEnd(options.maxThds, Len(clist), batchBegin)
    /\ cells' = SubSeq(clist, batchBegin + 1, batchEnd')
    /\ pc' = "call"
    /\ UNCHANGED <<options, argv, env, handler, updateLock,
                   clist, vmstatCount, batch, batchBegin,
                   sampleCount, loopCount, returnValue, result>>
    /\ UNCHANGED <<round, all_cells, idx, threads, waitList, status, output,
                   badCells, cells_need_retry, warned>>
    /\ UNCHANGED <<orphans, histVars>>

\* main calls copyAndExecute on the slice: the program checks, then the
\* first run_workThread begins
CallCopyAndExecute ==
    /\ pc = "call"
    /\ vmstatCount # None => Len(calls) < MaxCalls
    /\ IF ProgramMissing(options)
       THEN /\ pc' = "done"
            /\ result' = 2
            /\ UNCHANGED <<round, all_cells, idx, threads, waitList, status,
                           output, badCells, cells_need_retry, warned, calls>>
       ELSE /\ pc' = "run_workThread"
            /\ round' = 1
            /\ all_cells' = cells
            /\ idx' = 1
            /\ threads' = << >>
            /\ waitList' = << >>
            /\ status' = EmptyMap
            /\ output' = EmptyMap
            /\ badCells' = << >>
            /\ cells_need_retry' = << >>
            /\ warned' = <<{}, {}>>
            /\ calls' = Append(calls, cells)
            /\ UNCHANGED result
    /\ UNCHANGED <<options, argv, env, handler, updateLock,
                   clist, vmstatCount, batch, batchBegin,
                   batchEnd, sampleCount, loopCount, returnValue, cells>>
    /\ UNCHANGED <<orphans, started, recorded, reported, written>>

\* --------------------------------------------- copyAndExecute: its locals
\* pushKey, serialize, SSHKEY, files and command as copyAndExecute and the
\* WorkThreads read them
\* (serializeOpsOnly: only --serial serializes)
pushKey(o) == o.pushKey \/ o.konepw
serializeOpsOnly(o) == o.serializeOps
serialize(o) == o.serializeOps \/ o.pushKey
HasKey(o) == o.pushKey \/ o.konepw \/ o.dropKey
HasFiles(o) == o.file \/ o.exec_file
CommandGiven(o) == HasCommand(o) \/ o.exec_file

\* the stages of WorkThread.run: 1 key push, 2 mkdir of the destination,
\* 3 copy, 4 command, 5 key drop
Stages == 1..5
StageWanted(o, s) ==
    CASE s = 1 -> HasKey(o) /\ pushKey(o)
      [] s = 2 -> o.destfile = "dir/"
      [] s = 3 -> HasFiles(o)
      [] s = 4 -> CommandGiven(o)
      [] s = 5 -> HasKey(o) /\ o.dropKey

\* the stage a thread runs next: the first wanted stage after the last one
\* it ran; every stage but the key push is skipped after a nonzero status.
\* 6: no stage is left
\* (StageRunsAlways: a nonzero status skips nothing)
StageRunsAlways(o, t, s) == StageWanted(o, s)
StageRuns(o, t, s) == StageWanted(o, s) /\ (s = 1 \/ t.childStatus = 0)
NextStage(o, t) ==
    IF \E s \in Stages : s > t.stage /\ StageRuns(o, t, s)
    THEN CHOOSE s \in Stages :
            /\ s > t.stage /\ StageRuns(o, t, s)
            /\ \A r \in Stages : r > t.stage /\ StageRuns(o, t, r) => s <= r
    ELSE 6

\* the serialize argument WorkThread.run gives runCommand for stage s
SerializeArg(o, s) == s = 1 \/ serialize(o)

\* runCommand runs the subprocess with subprocess.call on the terminal
\* (-k without a shared password; the key push passes no input lines then)
DirectCall(o) == pushKey(o) /\ ~o.konepw

\* a thread as WorkThread.__init__ and the head of run leave it
NewThread(cell) ==
    [cell |-> cell, pc |-> "run", stage |-> 0, childStatus |-> 0,
     childOutput |-> << >>, output_truncated |-> FALSE, latin1 |-> FALSE]

\* a thread that has ended (returned: run returned; exited: SystemExit)
Ended(t, how) ==
    [cell |-> t.cell, pc |-> how, stage |-> 0, childStatus |-> 0,
     childOutput |-> << >>, output_truncated |-> FALSE, latin1 |-> FALSE]

\* a thread is alive until run returns or raises
\* (isAliveNoChild: a thread that waits for its subprocess counts as ended)
isAliveNoChild(t) == t.pc = "run"
isAlive(t) == t.pc \in {"run", "child"}

Threads == 1..Len(threads)

\* n output lines
Lines(n) == [i \in 1..n |-> "out"]


\* readNLines in chunk mode: what is left after every full chunk of
\* maxLines + 1 lines was handed to listResults
\* readNLines otherwise: nothing is left once the cap was exceeded
display_chunks(o, ser) == ser \/ Len(cells) = 1
readNLines(o, n, ser) ==
    IF display_chunks(o, ser) THEN Lines(n % (MaxLines + 1))
    ELSE IF n > MaxLines THEN << >> ELSE Lines(n)
Truncates(o, n, ser) == ~display_chunks(o, ser) /\ n > MaxLines

\* the lines readNLines hands to listResults in chunk mode: every full chunk
\* of maxLines + 1 lines
Flushed(n) == Lines((n \div (MaxLines + 1)) * (MaxLines + 1))

\* listResults' last loop for one host: its lines are printed unless only
\* the negatives are listed and its status is not above 0 (no line of the
\* modelled output matches the expression of -r)
listResults(listNegatives, st, lines) ==
    IF ~listNegatives \/ st > 0 THEN lines ELSE << >>

\* listResults' last loop: the hosts it goes through, 'for cell in cells',
\* of which the ones that are a key of outputMap are listed
\* (ListedHostsByKeys: the keys of outputMap in their own order)
ListedHostsByKeys(cells_, keys) ==
    SelectSeq(keys, LAMBDA c : \E i \in DOMAIN cells_ : cells_[i] = c)
ListedHosts(cells_, keys) ==
    SelectSeq(cells_, LAMBDA c : \E i \in DOMAIN keys : keys[i] = c)

\* the lines listResults' last loop prints for the hosts from the i-th on,
\* each with the host it is printed for
RECURSIVE ListedFrom(_, _, _, _, _)
ListedFrom(hosts, i, statusMap, outputMap, listNegatives) ==
    IF i > Len(hosts) THEN << >>
    ELSE LET l == listResults(listNegatives, statusMap[hosts[i]],
                              outputMap[hosts[i]])
         IN  [k \in 1..Len(l) |-> <<hosts[i], l[k]>>]
                 \o ListedFrom(hosts, i + 1, statusMap, outputMap,
                               listNegatives)

\* the lines of a call of listResults, without its summary lines
Listing(cells_, keys, statusMap, outputMap, listNegatives) ==
    ListedFrom(ListedHosts(cells_, keys), 1, statusMap, outputMap,
               listNegatives)

\* listResults' summary of the negatives listing: the hosts of cells that
\* have a status and whose status is 0
okCells(cells_, statusMap) ==
    SelectSeq(cells_, LAMBDA c : c \in DOMAIN statusMap /\ statusMap[c] = 0)

\* what readNLines' calls of listResults print in chunk mode: the status it
\* passes for the host is 0
ChunksPrinted(o, n) == listResults(o.listNegatives, 0, Flushed(n))

\* retry_if_needed: an offending-key warning is in the banner or the output
retry_if_needed(o, offending) == o.konepw /\ offending

\* ----------------------------------------------------------- run_workThread
\* run_workThread's first loop: a thread is created and started for the next
\* host; with serialize the loop then waits until that thread has ended
StartThread ==
    /\ pc = "run_workThread"
    /\ idx <= Len(all_cells)
    /\ serialize(options) => \A t \in Threads : ~isAlive(threads[t])
    /\ threads' = Append(threads, NewThread(all_cells[idx]))
    /\ waitList' = IF serialize(options) THEN waitList
                   ELSE Append(waitList, Len(threads) + 1)
    /\ idx' = idx + 1
    /\ started' = [started EXCEPT ![all_cells[idx]] = @ + 1]
    /\ UNCHANGED <<mainVars, cells, round, all_cells, status, output, badCells,
                   cells_need_retry, warned, orphans, calls, recorded,
                   reported, written>>

\* remove_offending_keys: the entries of cells_need_retry, in order, whose
\* position is in found (the host or its address was in known_hosts)
RECURSIVE ableFrom(_, _, _)
ableFrom(need, i, found) ==
    IF i > Len(need) THEN << >>
    ELSE (IF i \in found THEN <<need[i]>> ELSE << >>)
         \o ableFrom(need, i + 1, found)
remove_offending_keys(need, found) == ableFrom(need, 1, found)

\* the retry pass follows the main pass when a host asked for a retry
RetryFollows(rnd, need) == rnd = 1 /\ need # << >>

\* what remove_offending_keys meets for an entry of cells_need_retry:
\*   resolved: gethostbyname gave an address (or raised gaierror)
\*   known_hosts: the file was read, open raised IOError, or read raised
\*                UnicodeDecodeError (a byte that is no text)
\*   cell_in, ip_in: the host name, the address is in the text of the file
LookupOutcomes ==
    [resolved : BOOLEAN,
     known_hosts : {"read", "IOError", "UnicodeDecodeError"},
     cell_in : BOOLEAN, ip_in : BOOLEAN]

\* is_able_to_retry for an entry with the outcome l
is_able_to_retry(l) ==
    l.known_hosts = "read" /\ (l.cell_in \/ (l.resolved /\ l.ip_in))

\* the entries whose outcomes remove_offending_keys is asked about: those of
\* cells_need_retry when the retry pass follows
Lookups ==
    [(IF RetryFollows(round, cells_need_retry)
      THEN 1..Len(cells_need_retry) ELSE {}) -> LookupOutcomes]

\* remove_offending_keys raises: only IOError is caught around the reading
\* of known_hosts
LookupRaises(lookups) ==
    \E i \in DOMAIN lookups : lookups[i].known_hosts = "UnicodeDecodeError"

\* run_workThread's second loop has joined every thread of waitList: the
\* retry pass follows, with the entries that are able to retry, or
\* copyAndExecute returns; an exception of remove_offending_keys is caught
\* nowhere and ends main
EndWorkThreadWith(lookups) ==
    /\ pc = "run_workThread"
    /\ idx > Len(all_cells)
    /\ \A t \in Threads : ~isAlive(threads[t])
    /\ IF RetryFollows(round, cells_need_retry)
       THEN IF LookupRaises(lookups)
            THEN /\ pc' = "crashed"
                 /\ UNCHANGED <<all_cells, round, idx>>
            ELSE /\ all_cells' =
                      remove_offending_keys(
                          cells_need_retry,
                          {i \in DOMAIN lookups :
                              is_able_to_retry(lookups[i])})
                 /\ round' = 2
                 /\ idx' = 1
                 /\ pc' = "run_workThread"
       ELSE /\ pc' = "returned"
            /\ UNCHANGED <<all_cells, round, idx>>
    /\ UNCHANGED <<options, argv, env, handler, updateLock,
                   clist, vmstatCount, batch, batchBegin,
                   batchEnd, sampleCount, loopCount, returnValue, result>>
    /\ UNCHANGED <<cells, threads, waitList, status, output, badCells,
                   cells_need_retry, warned, orphans, histVars>>

EndWorkThread == \E lookups \in Lookups : EndWorkThreadWith(lookups)

\* the handler of KeyboardInterrupt kills the subprocess of thread t: the
\* thread is in waitList and alive, and thread.child (set at the first Popen
\* of runCommand only, not by subprocess.call and not at the Popen of the
\* latin-1 fallback) is the subprocess the thread waits for
Kills(t) ==
    /\ t \in Elems(waitList)
    /\ isAlive(threads[t])
    /\ threads[t].pc = "child"
    /\ ~DirectCall(options)
    /\ ~threads[t].latin1

\* a thread that the handler found without a subprocess and that can spawn
\* one before the process exits
SpawnsLate(t) ==
    threads[t].pc = "run" /\ NextStage(options, threads[t]) \in Stages

\* KeyboardInterrupt reaches the main thread inside run_workThread: the
\* handler kills and waits for the subprocesses of the threads of waitList,
\* raises again, and main ends the process with os._exit(1); the
\* subprocesses that were not killed are left running
KeyboardInterrupt ==
    /\ pc = "run_workThread"
    /\ \E late \in SUBSET {t \in Threads : SpawnsLate(t)} :
          LET left == {t \in Threads :
                          threads[t].pc = "child" /\ ~Kills(t)}
          IN  orphans' = orphans + Cardinality(left) + Cardinality(late)
    /\ pc' = "interrupted"
    /\ round' = 0 /\ all_cells' = << >> /\ idx' = 0
    /\ threads' = << >> /\ waitList' = << >>
    /\ status' = EmptyMap /\ output' = EmptyMap
    /\ badCells' = << >> /\ cells_need_retry' = << >>
    /\ warned' = <<{}, {}>>
    /\ UNCHANGED <<options, argv, env, handler, updateLock,
                   clist, vmstatCount, batch, batchBegin,
                   batchEnd, sampleCount, loopCount, returnValue, result,
                   cells, histVars>>

\* ------------------------------------------------------------- WorkThread
\* WorkThread.run reaches a stage that is wanted: runCommand spawns the
\* subprocess (Popen, or subprocess.call in the direct case)
Spawn(t) ==
    /\ threads[t].pc = "run"
    /\ NextStage(options, threads[t]) \in Stages
    /\ threads' = [threads EXCEPT ![t].pc = "child",
                                  ![t].stage = NextStage(options, threads[t])]
    /\ UNCHANGED <<mainVars, cells, round, all_cells, idx, waitList, status,
                   output, badCells, cells_need_retry, warned, orphans, calls,
                   started, recorded, reported, written>>

\* append cell to the list unless it is in it
AppendNew(list, cell) ==
    IF \E i \in 1..Len(list) : list[i] = cell THEN list ELSE Append(list, cell)

\* the direct case of runCommand: subprocess.call returns st, or raises
\* (st = None); any nonzero status puts the host in badCells
CallReturns(t, st) ==
    /\ threads[t].pc = "child"
    /\ DirectCall(options)
    /\ threads' = [threads EXCEPT ![t].pc = "run",
                                  ![t].childStatus =
                                      IF st = None THEN 1 ELSE st]
    /\ badCells' = IF st # 0 THEN AppendNew(badCells, threads[t].cell)
                   ELSE badCells
    /\ UNCHANGED <<mainVars, cells, round, all_cells, idx, waitList, status,
                   output, cells_need_retry, warned, orphans, calls, started,
                   recorded, reported, written>>

\* the status runCommand returns for a subprocess that ended with rc
ReturnedStatus(rc, truncated) == IF truncated THEN 1 ELSE rc

\* the lines runCommand returns: what readNLines left, and the timeout line
ReturnedLines(l, rc) ==
    IF rc = 124 THEN Append(l, "Timeout expired") ELSE l

\* what ssh or scp wrote to stderr (banner_or_err): the offending-key
\* warning when there is one
BannerOrError(offending) ==
    IF offending THEN <<"Offending key">> ELSE << >>

\* readLinesWithBanner: the banner between two marker lines, then the lines
readLinesWithBanner(r, banner) ==
    <<"******BANNER******">> \o banner \o <<"******BANNER******">> \o r

\* the lines runCommand returns with --showbanner: the banner goes first when
\* there is a command and the subprocess did not end with 255
WithBanner(o, l, rc, offending) ==
    IF CommandGiven(o) /\ rc # 255 /\ o.showBanner
    THEN readLinesWithBanner(l, BannerOrError(offending))
    ELSE l

\* what runCommand prints of banner_or_err with printBannerOrError: all of
\* it once the subprocess has ended, and once more for status 255 with -v
\* when there is a command, for a nonzero status when there is none
PrintedBanner(o, verbose, rc, banner) ==
    banner \o (IF CommandGiven(o)
               THEN IF rc = 255 /\ verbose THEN banner ELSE << >>
               ELSE IF rc # 0 THEN banner ELSE << >>)

\* runCommand puts the host in badCells: status 255, no timeout, no retry
MarksBad(o, rc, offending) ==
    rc # 124 /\ ~retry_if_needed(o, offending) /\ rc = 255

\* runCommand asks for a retry of the host
MarksRetry(o, rc, offending) == rc # 124 /\ retry_if_needed(o, offending)

\* the piped case of runCommand: communicate returns, the subprocess has
\* ended with rc after n lines, with or without an offending-key warning
ChildEnds(t, rc, n, offending) ==
    /\ threads[t].pc = "child"
    /\ ~DirectCall(options)
    /\ MarksRetry(options, rc, offending) =>
          Len(cells_need_retry) < env.retries
    /\ LET th  == threads[t]
           ser == SerializeArg(options, th.stage)
           l   == readNLines(options, n, ser)
           tr  == th.output_truncated \/ Truncates(options, n, ser)
       IN  /\ threads' = [threads EXCEPT
                 ![t].pc = "run",
                 ![t].childStatus = ReturnedStatus(rc, tr),
                 ![t].childOutput =
                     @ \o WithBanner(options, ReturnedLines(l, rc), rc,
                                     offending),
                 ![t].output_truncated = tr,
                 ![t].latin1 = FALSE]
           /\ cells_need_retry' =
                 IF MarksRetry(options, rc, offending)
                 THEN Append(cells_need_retry, th.cell)
                 ELSE cells_need_retry
           /\ warned' = IF retry_if_needed(options, offending)
                        THEN [warned EXCEPT ![round] = @ \cup {th.cell}]
                        ELSE warned
           /\ badCells' = IF MarksBad(options, rc, offending)
                          THEN Append(badCells, th.cell)
                          ELSE badCells
    /\ UNCHANGED <<mainVars, cells, round, all_cells, idx, waitList, status,
                   output, orphans, calls, started, recorded, reported,
                   written>>

\* sys.exit(1) in a WorkThread raises SystemExit in that thread only: the
\* thread ends, the others go on
\* (ProcessExits: every thread of the call ends)
ProcessExits(ths, t) == [u \in DOMAIN ths |-> Ended(ths[u], "exited")]
ThreadExits(ths, t) == [ths EXCEPT ![t] = Ended(@, "exited")]

\* communicate(timeout = options.timeout + 2) raises TimeoutExpired:
\* sys.exit(1) ends the thread, its subprocess is left running
CommunicateExpires(t) ==
    /\ threads[t].pc = "child"
    /\ ~DirectCall(options)
    /\ options.timeout
    /\ threads' = ThreadExits(threads, t)
    /\ orphans' = orphans + 1
    /\ UNCHANGED <<mainVars, cells, round, all_cells, idx, waitList, status,
                   output, badCells, cells_need_retry, warned, calls, started,
                   recorded, reported, written>>

\* communicate raises UnicodeDecodeError: the command is spawned again with
\* the latin-1 encoding, which decodes every byte
DecodeFails(t) ==
    /\ threads[t].pc = "child"
    /\ ~DirectCall(options)
    /\ ~threads[t].latin1
    /\ threads' = [threads EXCEPT ![t].latin1 = TRUE]
    /\ UNCHANGED <<mainVars, cells, round, all_cells, idx, waitList, status,
                   output, badCells, cells_need_retry, warned, orphans, calls,
                   started, recorded, reported, written>>

\* the keys of a dict after an assignment to the entry of cell: a new key
\* goes last, a key that is there keeps its place
Keyed(keys, cell) ==
    IF \E i \in DOMAIN keys : keys[i] = cell THEN keys
    ELSE Append(keys, cell)

\* the end of WorkThread.run: no stage is left, the thread writes its status
\* and its output under updateLock and returns
WriteResult(t) ==
    /\ threads[t].pc = "run"
    /\ NextStage(options, threads[t]) = 6
    /\ LET th == threads[t]
           others == DOMAIN status \ {th.cell}
       IN  /\ status' = [h \in DOMAIN status \cup {th.cell} |->
                            IF h = th.cell THEN th.childStatus ELSE status[h]]
           /\ output' = [h \in DOMAIN output \cup {th.cell} |->
                            IF h = th.cell THEN th.childOutput ELSE output[h]]
           /\ written' = Keyed(written, th.cell)
           /\ threads' = [threads EXCEPT ![t] = Ended(th, "returned")]
    /\ UNCHANGED <<mainVars, cells, round, all_cells, idx, waitList, badCells,
                   cells_need_retry, warned, orphans, calls, started, recorded,
                   reported>>

\* a subprocess left behind by a thread ends by itself
OrphanEnds ==
    /\ orphans > 0
    /\ orphans' = orphans - 1
    /\ UNCHANGED <<mainVars, cells, round, all_cells, idx, threads, waitList,
                   status, output, badCells, cells_need_retry, warned, calls,
                   started, recorded, reported, written>>

\* the steps of the WorkThreads, each for some thread of the call
ThreadSpawns == \E t \in Threads : Spawn(t)
ThreadCallReturns ==
    \E t \in Threads, st \in RetCodes \cup {None} : CallReturns(t, st)
ThreadChildEnds ==
    \E t \in Threads, rc \in RetCodes, n \in env.lineCounts,
       offending \in BOOLEAN : ChildEnds(t, rc, n, offending)
ThreadCommunicateExpires == \E t \in Threads : CommunicateExpires(t)
ThreadDecodeFails == \E t \in Threads : DecodeFails(t)
ThreadWritesResult == \E t \in Threads : WriteResult(t)

\* ------------------------------------------------- main: after each pass
\* max over a set of integers
Max(S) == CHOOSE x \in S : \A y \in S : y <= x

Values(map) == {map[h] : h \in DOMAIN map}

\* main's returnValue after a pass: 1 when badCells is not empty, then the
\* maximum of the statuses of the pass and that value
NextReturnValue(rv, statusMap, bad) ==
    Max(Values(statusMap) \cup {IF Len(bad) > 0 THEN 1 ELSE rv})

\* what main returns: returnValue and 1
Returned(rv) == IF rv = 0 THEN 0 ELSE 1

\* the sampling loop of main takes another sample of the same slice
SamplesAgain(statusMap, isBatch, count, loops) ==
    /\ Max(Values(statusMap)) <= 0
    /\ ~isBatch
    /\ ~(count >= 0 /\ loops + 1 >= count)

\* main's loop starts another round over the whole host list
\* (SweepsOnce: the host list is gone through once)
SweepsOnce(isBatch, count, loops) == FALSE
SweepsAgain(isBatch, count, loops) ==
    isBatch /\ count # None /\ (count < 0 \/ loops < count)

\* the last statuses and the unreachable hosts main was handed
Merge(old, new) ==
    [h \in DOMAIN old \cup DOMAIN new |->
        IF h \in DOMAIN new THEN new[h] ELSE old[h]]

\* the slice that ends at end is the last one of the host list
\* (LastBatchAlways: the loop is left after its first slice)
LastBatchAlways(end, len) == TRUE
LastBatch(end, len) == end = len

\* copyAndExecute has returned its three results to main: main lists them and
\* goes on; the locals of the call are gone
AfterPass ==
    /\ pc = "returned"
    /\ recorded' = Merge(recorded, status)
    /\ written' = << >>
    /\ reported' = reported \cup Elems(badCells)
    /\ IF vmstatCount # None /\ status = EmptyMap
       THEN \* max() of an empty sequence raises ValueError
            /\ pc' = "crashed"
            /\ UNCHANGED <<returnValue, loopCount, sampleCount, batchBegin,
                           result>>
       ELSE IF vmstatCount # None
               /\ SamplesAgain(status, batch, vmstatCount, loopCount)
       THEN /\ pc' = "call"
            /\ returnValue' = IF Len(badCells) > 0 THEN 1 ELSE returnValue
            /\ loopCount' = IF vmstatCount >= 0 THEN loopCount + 1
                            ELSE loopCount
            /\ sampleCount' = 2
            /\ UNCHANGED <<batchBegin, result>>
       ELSE LET loops == IF /\ vmstatCount # None
                            /\ Max(Values(status)) <= 0
                            /\ ~batch
                            /\ vmstatCount >= 0
                         THEN loopCount + 1 ELSE loopCount
                rv == NextReturnValue(returnValue, status, badCells)
            IN  /\ returnValue' = rv
                /\ IF LastBatch(batchEnd, Len(clist))
                   THEN /\ loopCount' = loops + 1
                        /\ IF SweepsAgain(batch, vmstatCount, loops + 1)
                           THEN /\ batchBegin' = 0
                                /\ sampleCount' = 2
                                /\ pc' = "loop"
                                /\ UNCHANGED result
                           ELSE /\ pc' = "done"
                                /\ result' = Returned(rv)
                                /\ UNCHANGED <<batchBegin, sampleCount>>
                   ELSE /\ batchBegin' = batchEnd
                        /\ loopCount' = loops
                        /\ pc' = "loop"
                        /\ UNCHANGED <<sampleCount, result>>
    /\ round' = 0 /\ all_cells' = << >> /\ idx' = 0
    /\ threads' = << >> /\ waitList' = << >>
    /\ status' = EmptyMap /\ output' = EmptyMap
    /\ badCells' = << >> /\ cells_need_retry' = << >>
    /\ warned' = <<{}, {}>>
    /\ UNCHANGED <<options, argv, env, handler, updateLock,
                   clist, vmstatCount, batch, batchEnd,
                   cells>>
    /\ UNCHANGED <<orphans, calls, started>>

Next ==
    \/ MainStart
    \/ MainLoop
    \/ CallCopyAndExecute
    \/ StartThread
    \/ EndWorkThread
    \/ KeyboardInterrupt
    \/ AfterPass
    \/ ThreadSpawns
    \/ ThreadCallReturns
    \/ ThreadChildEnds
    \/ ThreadCommunicateExpires
    \/ ThreadDecodeFails
    \/ ThreadWritesResult
    \/ OrphanEnds

Spec == Init /\ [][Next]_vars

\* the runs that only set a batch size
SpecBatch == InitBatch /\ [][Next]_vars

\* the key push runs
SpecRetry == InitRetry /\ [][Next]_vars

\* the runs whose output is looked at line by line
SpecLines == InitLines /\ [][Next]_vars

\* the most threads one call of copyAndExecute starts
MaxThreads == MaxBatchHosts + MaxRetries

\* what the Python threads do by themselves: the main thread goes on, a
\* thread spawns its next subprocess and writes its result, and the wait of
\* communicate(timeout) expires when the subprocess has not ended; when a
\* subprocess ends and whether an interrupt arrives is up to the environment
Fairness ==
    /\ WF_vars(MainStart) /\ WF_vars(MainLoop)
    /\ WF_vars(CallCopyAndExecute) /\ WF_vars(StartThread)
    /\ WF_vars(EndWorkThread) /\ WF_vars(AfterPass)
    /\ \A t \in 1..MaxThreads :
          /\ WF_vars(t \in Threads /\ Spawn(t))
          /\ WF_vars(t \in Threads /\ CommunicateExpires(t))
          /\ WF_vars(t \in Threads /\ WriteResult(t))

\* the runs with --timeout, with the threads scheduled fairly
SpecTimeout == InitTimeout /\ [][Next]_vars /\ Fairness

\* the periodic sampling runs
SpecSampling == InitSampling /\ [][Next]_vars

\* --------------------------------- the handler of KeyboardInterrupt, by step
\* the runs that are interrupted: a command, a file that is copied and
\* executed, -k and --serial, without --timeout; subprocesses that print
\* nothing
InterruptRuns ==
    {Edit(PlainRun(n), e) :
        n \in 1..MaxHosts,
        e \in {[args |-> TRUE], [args |-> FALSE, exec_file |-> TRUE],
               [pushKey |-> TRUE], [serializeOps |-> TRUE]}}

InitInterrupt ==
    /\ options \in InterruptRuns
    /\ argv = options
    /\ env = [lineCounts |-> {0}, retries |-> 0]
    /\ Start

\* thread.child is set: runCommand has stored a Popen object in self.child
HasChild(th) == ~DirectCall(options) /\ th.stage >= 1

\* the subprocess of thread.child has not ended (poll() gives None)
ChildRuns(th) == HasChild(th) /\ th.pc = "child" /\ ~th.latin1

\* the handler goes on to the next entry of waitList
NextEntry(h) == [h EXCEPT !.at = "check", !.i = @ + 1, !.t = 0]

\* the handler has sent sig to the subprocess of thread.child: whether that
\* subprocess runs, and whether it is the one that SIGTERM was sent to (the
\* invoker stores the subprocess of each stage in self.child)
Signalled(h, th, t, sig) ==
    [h EXCEPT !.signals =
        Append(@, [thread |-> t, sig |-> sig, running |-> ChildRuns(th),
                   termed |-> \/ sig = "SIGTERM"
                              \/ ~ChildRuns(th)
                              \/ th.stage = h.stage])]

\* KeyboardInterrupt reaches the main thread inside run_workThread
HandlerBegins ==
    /\ pc = "run_workThread"
    /\ pc' = "handler"
    /\ handler' = [NoHandler EXCEPT !.at = "check", !.i = 1]
    /\ UNCHANGED <<options, argv, env, updateLock, clist, vmstatCount, batch,
                   batchBegin, batchEnd, sampleCount, loopCount, returnValue,
                   result, callVars, orphans, histVars>>

\* for thread in waitList: if thread.isAlive() and thread.child
HandlerChecks ==
    /\ pc = "handler" /\ handler.at = "check"
    /\ handler.i <= Len(waitList)
    /\ LET th == threads[waitList[handler.i]]
       IN  handler' = IF isAlive(th) /\ HasChild(th)
                      THEN [handler EXCEPT !.at = "term"]
                      ELSE NextEntry(handler)
    /\ UNCHANGED <<options, argv, env, updateLock, pc, clist, vmstatCount,
                   batch, batchBegin, batchEnd, sampleCount, loopCount,
                   returnValue, result, callVars, orphans, histVars>>

\* os.kill(thread.child.pid, signal.SIGTERM); for a subprocess that is gone
\* os.kill raises OSError with errno 3, which is passed over
HandlerTerms ==
    /\ pc = "handler" /\ handler.at = "term"
    /\ LET t  == waitList[handler.i]
           th == threads[t]
           h  == Signalled(handler, th, t, "SIGTERM")
       IN  handler' = IF ChildRuns(th)
                      THEN [h EXCEPT !.at = "poll", !.t = GracePolls,
                                     !.stage = th.stage]
                      ELSE NextEntry(h)
    /\ UNCHANGED <<options, argv, env, updateLock, pc, clist, vmstatCount,
                   batch, batchBegin, batchEnd, sampleCount, loopCount,
                   returnValue, result, callVars, orphans, histVars>>

\* while thread.child.poll() == None: sleep while time is left, else go on
\* to the forced kill
HandlerPolls ==
    /\ pc = "handler" /\ handler.at = "poll"
    /\ LET th == threads[waitList[handler.i]]
       IN  handler' = IF ~ChildRuns(th) THEN NextEntry(handler)
                      ELSE IF handler.t > 0
                           THEN [handler EXCEPT !.t = @ - 1]
                           ELSE [handler EXCEPT !.at = "kill"]
    /\ UNCHANGED <<options, argv, env, updateLock, pc, clist, vmstatCount,
                   batch, batchBegin, batchEnd, sampleCount, loopCount,
                   returnValue, result, callVars, orphans, histVars>>

\* os.kill(thread.child.pid, signal.SIGKILL), the last poll and break
HandlerKills ==
    /\ pc = "handler" /\ handler.at = "kill"
    /\ LET t == waitList[handler.i]
       IN  handler' = NextEntry(Signalled(handler, threads[t], t, "SIGKILL"))
    /\ UNCHANGED <<options, argv, env, updateLock, pc, clist, vmstatCount,
                   batch, batchBegin, batchEnd, sampleCount, loopCount,
                   returnValue, result, callVars, orphans, histVars>>

\* the loop over waitList is over: raise KeyboardInterrupt, and main ends
\* the process with os._exit(1); the subprocesses that still run are left
HandlerRaises ==
    /\ pc = "handler" /\ handler.at = "check"
    /\ handler.i > Len(waitList)
    /\ handler' = [handler EXCEPT !.at = "raised"]
    /\ pc' = "interrupted"
    /\ orphans' = orphans
                     + Cardinality({t \in Threads : threads[t].pc = "child"})
    /\ threads' = << >>
    /\ UNCHANGED <<options, argv, env, updateLock, clist, vmstatCount, batch,
                   batchBegin, batchEnd, sampleCount, loopCount, returnValue,
                   result, cells, round, all_cells, idx, waitList, status,
                   output, badCells, cells_need_retry, warned, histVars>>

\* the program without --timeout, with the handler taken step by step
NextInterrupt ==
    \/ MainStart
    \/ MainLoop
    \/ CallCopyAndExecute
    \/ StartThread
    \/ EndWorkThread
    \/ AfterPass
    \/ ThreadSpawns
    \/ ThreadCallReturns
    \/ ThreadChildEnds
    \/ ThreadDecodeFails
    \/ ThreadWritesResult
    \/ OrphanEnds
    \/ HandlerBegins
    \/ HandlerChecks
    \/ HandlerTerms
    \/ HandlerPolls
    \/ HandlerKills
    \/ HandlerRaises

SpecInterrupt == InitInterrupt /\ [][NextInterrupt]_vars

\* ------------------------------- the end of WorkThread.run, by statement
\* the runs whose threads write their results: one host and more, a
\* command or a file that is copied and executed, --timeout, -k and
\* --serial
LockRuns ==
    {Edit(PlainRun(n), e) :
        n \in 1..MaxHosts,
        e \in {[args |-> TRUE], [args |-> FALSE, exec_file |-> TRUE],
               [timeout |-> TRUE], [pushKey |-> TRUE],
               [serializeOps |-> TRUE]}}

InitLock ==
    /\ options \in LockRuns
    /\ argv = options
    /\ env = [lineCounts |-> {0, 1}, retries |-> 0]
    /\ Start

\* the threads that are between updateLock.acquire() and
\* updateLock.release()
Holders == DOMAIN updateLock

\* map with the entry of cell set to value
Inserted(map, cell, value) ==
    [h \in DOMAIN map \cup {cell} |-> IF h = cell THEN value ELSE map[h]]

\* updateLock.acquire(): the thread waits until the lock is free
LockAcquireAnyway(t) ==
    /\ threads[t].pc = "run"
    /\ NextStage(options, threads[t]) = 6
    /\ t \notin Holders
    /\ updateLock' = [h \in Holders \cup {t} |->
                         IF h = t THEN 0 ELSE updateLock[h]]
    /\ UNCHANGED <<options, argv, env, handler, pc, clist, vmstatCount, batch,
                   batchBegin, batchEnd, sampleCount, loopCount, returnValue,
                   result, callVars, orphans, histVars>>

LockAcquire(t) ==
    /\ threads[t].pc = "run"
    /\ NextStage(options, threads[t]) = 6
    /\ Holders = {}
    /\ updateLock' = [h \in {t} |-> 0]
    /\ UNCHANGED <<options, argv, env, handler, pc, clist, vmstatCount, batch,
                   batchBegin, batchEnd, sampleCount, loopCount, returnValue,
                   result, callVars, orphans, histVars>>

\* status[self.cell] = childStatus
WriteStatus(t) ==
    /\ t \in Holders /\ updateLock[t] = 0
    /\ status' = Inserted(status, threads[t].cell, threads[t].childStatus)
    /\ updateLock' = [updateLock EXCEPT ![t] = 1]
    /\ UNCHANGED <<options, argv, env, handler, pc, clist, vmstatCount, batch,
                   batchBegin, batchEnd, sampleCount, loopCount, returnValue,
                   result, cells, round, all_cells, idx, threads, waitList,
                   output, badCells, cells_need_retry, warned, orphans,
                   histVars>>

\* output[self.cell] = childOutput
WriteOutput(t) ==
    /\ t \in Holders /\ updateLock[t] = 1
    /\ output' = Inserted(output, threads[t].cell, threads[t].childOutput)
    /\ written' = Keyed(written, threads[t].cell)
    /\ updateLock' = [updateLock EXCEPT ![t] = 2]
    /\ UNCHANGED <<options, argv, env, handler, pc, clist, vmstatCount, batch,
                   batchBegin, batchEnd, sampleCount, loopCount, returnValue,
                   result, cells, round, all_cells, idx, threads, waitList,
                   status, badCells, cells_need_retry, warned, orphans,
                   calls, started, recorded, reported>>

\* updateLock.release() and the return of run
LockRelease(t) ==
    /\ t \in Holders /\ updateLock[t] = 2
    /\ updateLock' = [h \in Holders \ {t} |-> updateLock[h]]
    /\ threads' = [threads EXCEPT ![t] = Ended(threads[t], "returned")]
    /\ UNCHANGED <<options, argv, env, handler, pc, clist, vmstatCount, batch,
                   batchBegin, batchEnd, sampleCount, loopCount, returnValue,
                   result, cells, round, all_cells, idx, waitList, status,
                   output, badCells, cells_need_retry, warned, orphans,
                   histVars>>

ThreadAcquires == \E t \in Threads : LockAcquire(t)
ThreadWritesStatus == \E t \in Threads : WriteStatus(t)
ThreadWritesOutput == \E t \in Threads : WriteOutput(t)
ThreadReleases == \E t \in Threads : LockRelease(t)

\* the program with the end of WorkThread.run taken statement by statement
NextLock ==
    \/ MainStart
    \/ MainLoop
    \/ CallCopyAndExecute
    \/ StartThread
    \/ EndWorkThread
    \/ AfterPass
    \/ ThreadSpawns
    \/ ThreadCallReturns
    \/ ThreadChildEnds
    \/ ThreadCommunicateExpires
    \/ ThreadDecodeFails
    \/ ThreadAcquires
    \/ ThreadWritesStatus
    \/ ThreadWritesOutput
    \/ ThreadReleases
    \/ OrphanEnds

SpecLock == InitLock /\ [][NextLock]_vars

\* ------------------------------------------- the functions taken alone
\* buildCellList is called with a host-list file and at most one -c value
InitCellList ==
    /\ options = PlainRun(0)
    /\ argv = options
    /\ env \in [file : UNION {[1..k -> TextsUpTo(MaxLineChars)] :
                                 k \in 0..MaxFileLines},
                 cells : UNION {[1..k -> TextsUpTo(MaxListChars)] :
                                  k \in 0..1}]
    /\ Start

\* main calls buildCellList(options.cells, options.groupfile)
CallBuildCellList ==
    /\ pc = "start"
    /\ "file" \in DOMAIN env
    /\ clist' = buildCellList(inlineEntries(env.cells), hostLines(env.file))
    /\ pc' = "built"
    /\ UNCHANGED <<options, argv, env, handler, updateLock, vmstatCount, batch,
                   batchBegin, batchEnd, sampleCount, loopCount, returnValue,
                   result, callVars, orphans, histVars>>

SpecCellList == InitCellList /\ [][CallBuildCellList]_vars

\* update_max_threads is called for two hosts with every descriptor limit
\* (or none), with and without --serial, -k and --batchsize
InitMaxThreads ==
    /\ options \in
          {Edit(PlainRun(2),
                [fdLimit |-> f, serializeOps |-> s, pushKey |-> k,
                 batchsizeGiven |-> b # 0, maxThds |-> b]) :
              f \in (0..MaxFdLimit) \cup {None}, s \in BOOLEAN,
              k \in BOOLEAN, b \in 0..MaxHosts}
    /\ argv = options
    /\ env = [lineCounts |-> {0}, retries |-> 0]
    /\ Start

\* main calls update_max_threads(options) and turns batch mode on when it
\* returns True
CallUpdateMaxThreads ==
    /\ pc = "start"
    /\ LET auto == update_max_threads(options)
       IN  /\ options' = IF auto # 0 THEN [options EXCEPT !.maxThds = auto]
                         ELSE options
           /\ batch' = (auto # 0)
    /\ pc' = "updated"
    /\ UNCHANGED <<argv, env, handler, updateLock, clist, vmstatCount,
                   batchBegin, batchEnd,
                   sampleCount, loopCount, returnValue, result,
                   callVars, orphans, histVars>>

SpecMaxThreads == InitMaxThreads /\ [][CallUpdateMaxThreads]_vars

\* the words of the modelled --vmstat values: numbers, a number below 1, a
\* negative number, a periodic and a non-periodic option
VmstatWords == {"0", "1", "2", "3", "-1", "-a", "-s"}

\* checkVmstat is called with a value of at most MaxWords words
InitVmstat ==
    /\ options = Edit(PlainRun(1), [args |-> FALSE, vmstatOps |-> ""])
    /\ argv = options
    /\ env \in [vmOpts : UNION {[1..k -> VmstatWords] : k \in 0..MaxWords}]
    /\ Start

\* main calls checkVmstat(options.vmstatOps) and keeps the repeat count
CallCheckVmstat ==
    /\ pc = "start"
    /\ "vmOpts" \in DOMAIN env
    /\ vmstatCount' = checkVmstat(env.vmOpts)
    /\ pc' = "checked"
    /\ UNCHANGED <<options, argv, env, handler, updateLock,
                   clist, batch, batchBegin, batchEnd,
                   sampleCount, loopCount, returnValue, result,
                   callVars, orphans, histVars>>

SpecVmstat == InitVmstat /\ [][CallCheckVmstat]_vars

\* a path is the sequence of its names and separators; the directory names
\* of the modelled destinations
DirNames == {"d", "e"}
EXA_TMP_DIR == <<"/", "var", "/", "log", "/", "exadatatmp", "/">>

\* the directory a remote command and scp start in: the home of the user
Home == <<"/", "root", "/">>

\* names joined by separators
RECURSIVE Joined(_)
Joined(names) ==
    IF Len(names) = 0 THEN << >>
    ELSE IF Len(names) = 1 THEN names
    ELSE <<names[1], "/">> \o Joined(Tail(names))

\* the values of -d: up to MaxNames names, absolute or relative, with or
\* without a separator at the end
DestFiles ==
    {(IF abs THEN <<"/">> ELSE << >>) \o Joined(names)
        \o (IF slash THEN <<"/">> ELSE << >>) :
        abs \in BOOLEAN, slash \in BOOLEAN,
        names \in UNION {[1..k -> DirNames] : k \in 1..MaxNames}}

\* os.path.isabs(path), path.endswith("/")
isabs(path) == Len(path) > 0 /\ path[1] = "/"
endswith(path, c) == Len(path) > 0 /\ path[Len(path)] = c

\* copyAndExecute's destname: the destination scp is given
destname(destfile, rootWithExaTmp) ==
    IF isabs(destfile) \/ destfile[1] \in {"\\~", "\\$"} THEN destfile
    ELSE IF rootWithExaTmp THEN EXA_TMP_DIR \o destfile
    ELSE <<".", "/">> \o destfile

\* the path 'mkdir -p' is given by WorkThread.run
mkdirPath(destfile, rootWithExaTmp) == destfile

\* the directory a path means on the remote host: the names from the root,
\* a relative path starting in the home of the user
Resolved(path) ==
    SelectSeq(IF isabs(path) THEN path ELSE Home \o path,
              LAMBDA n : n \notin {"/", "."})

\* a file is copied, or copied and executed, to a destination of DestFiles
InitDest ==
    /\ \E x \in BOOLEAN :
          options = Edit(PlainRun(1),
                         [args |-> FALSE, exec_file |-> x, file |-> ~x,
                          destfile |-> "dir/"])
    /\ argv = options
    /\ env \in [destfile : DestFiles, rootWithExaTmp : BOOLEAN]
    /\ Start

\* WorkThread.run makes the directory and copies the files: the directory
\* that mkdir makes and the one that scp copies to
CallMkdirAndCopy ==
    /\ pc = "start"
    /\ "destfile" \in DOMAIN env
    /\ result' =
          [made   |-> IF endswith(env.destfile, "/")
                      THEN Resolved(mkdirPath(env.destfile,
                                              env.rootWithExaTmp))
                      ELSE << >>,
           copied |-> Resolved(destname(env.destfile, env.rootWithExaTmp))]
    /\ pc' = "copied"
    /\ UNCHANGED <<options, argv, env, handler, updateLock, clist,
                   vmstatCount, batch, batchBegin, batchEnd, sampleCount,
                   loopCount, returnValue, callVars, orphans, histVars>>

SpecDest == InitDest /\ [][CallMkdirAndCopy]_vars

\* ------------------------------------------------------------ properties
\* a thread that has not ended
Running(t) == t.pc \notin {"returned", "exited"}
RunningThreads == {t \in Threads : Running(threads[t])}

\* the subprocesses that are alive: the ones a thread waits for and the ones
\* left behind
LiveChildren ==
    Cardinality({t \in Threads : threads[t].pc = "child"}) + orphans

\* main has returned from a run that passed every check
Finished == pc = "done" /\ result # 2

\* every host of the host list has a last status of 0 and was never returned
\* as unreachable
AllSucceeded ==
    \A h \in Elems(clist) :
        h \in DOMAIN recorded /\ recorded[h] = 0 /\ h \notin reported

\* C1: a non-sampling run without usage or configuration error returns 0 if
\* and only if every host of the host list ended with a recorded status of 0
\* and no host was reported unreachable; otherwise it returns 1
C1_ReturnsZeroIffAllSucceeded ==
    (Finished /\ vmstatCount = None) =>
        IF AllSucceeded THEN result = 0 ELSE result = 1

\* the option combinations and local preconditions that are to be rejected
Rejected(o) ==
    \/ o.listNegatives /\ o.regexp
    \/ o.args /\ o.exec_file
    \/ o.file /\ o.exec_file
    \/ o.serializeOps /\ o.batchsizeGiven
    \/ o.batchsizeGiven /\ o.maxThds < 1
    \/ o.destfile # "none" /\ ~(o.file \/ o.exec_file)
    \/ buildCellList(InlineCells(o.ncells), FileLines(o.groupfile)) = << >>
    \/ o.groupfile = "unreadable"
    \/ ProgramMissing(o)

\* C2: every rejected option combination and every failed local precondition
\* makes main return 2, and no thread is started for any host in that run
C2_RejectedReturnsTwo ==
    Rejected(argv) =>
        /\ \A h \in Hosts : started[h] = 0
        /\ pc = "done" => result = 2

\* C3: when copyAndExecute returns, every host whose status in the status
\* map is 255 is in the returned list of unreachable hosts
C3_Status255IsUnreachable ==
    pc = "returned" =>
        \A h \in DOMAIN status : status[h] = 255 => h \in Elems(badCells)

\* C4: when copyAndExecute returns, a host is in the returned list of
\* unreachable hosts only if its status in the status map is 255
C4_UnreachableOnlyIf255 ==
    pc = "returned" =>
        \A h \in Elems(badCells) : h \in DOMAIN status /\ status[h] = 255

\* C5: when copyAndExecute returns, the status map and the output map each
\* have exactly the hosts passed into the call as their keys
C5_OneResultPerHost ==
    pc = "returned" =>
        /\ DOMAIN status = Elems(cells)
        /\ DOMAIN output = Elems(cells)

\* C6: a failure of a host never aborts a non-sampling run: every host of a
\* slice that copyAndExecute was called on, and in the end every host of the
\* host list, had a thread started for it
C6_FailureDoesNotAbort ==
    vmstatCount = None =>
        /\ pc = "returned" => \A h \in Elems(cells) : started[h] >= 1
        /\ pc = "loop" => \A i \in 1..batchBegin : started[clist[i]] >= 1
        /\ Finished => \A h \in Elems(clist) : started[h] >= 1

\* the run has ended, the only host of its first slice ended with 255 and
\* the host of a later slice had its thread
C6_Witness ==
    /\ Finished /\ Len(calls) = 2 /\ Len(clist) = 2
    /\ clist[1] \in DOMAIN recorded /\ recorded[clist[1]] = 255
    /\ started[clist[2]] >= 1

\* the concatenation of the sequences of a sequence
RECURSIVE Concat(_)
Concat(seqs) ==
    IF seqs = << >> THEN << >> ELSE Head(seqs) \o Concat(Tail(seqs))

\* n / b rounded up
CeilDiv(n, b) == (n + b - 1) \div b

\* C7: for N hosts and a batch size B with 1 <= B <= N a non-sampling run
\* calls copyAndExecute exactly ceil(N/B) times, each time on a consecutive
\* slice of at most B hosts; the slices in order make up the host list
C7_ConsecutiveSlices ==
    (vmstatCount = None /\ options.maxThds >= 1
        /\ options.maxThds <= Len(clist)) =>
        /\ \A i \in 1..Len(calls) :
              Len(calls[i]) >= 1 /\ Len(calls[i]) <= options.maxThds
        /\ Len(Concat(calls)) <= Len(clist)
        /\ Concat(calls) = SubSeq(clist, 1, Len(Concat(calls)))
        /\ Finished =>
              /\ Len(calls) = CeilDiv(Len(clist), options.maxThds)
              /\ Concat(calls) = clist

\* a run on four hosts with batch size 3 has ended after its two slices
C7_Witness ==
    /\ Finished /\ Len(clist) = 4 /\ options.maxThds = 3
    /\ Len(calls) = 2 /\ calls[2] = <<4>>

\* C8: when a batch size B is in effect, at most B threads are running and
\* at most B of the subprocesses they spawned are alive at every moment, and
\* no thread or subprocess of a slice is left when the next slice starts
C8_AtMostBatchSize ==
    batch =>
        /\ Cardinality(RunningThreads) <= options.maxThds
        /\ LiveChildren <= options.maxThds
        /\ pc \in {"loop", "call"} => RunningThreads = {} /\ LiveChildren = 0

\* the threads of earlier passes: the threads of the retry pass follow the
\* threads of the main pass, one for every host of cells
EarlierThreads == IF round = 2 THEN Len(cells) ELSE 0

\* C9: with serialize at most one thread is running at any moment, the
\* threads are started in the order of the hosts, and the thread of a host
\* has ended before the thread of the next host is started
C9_SerializeOneAtATime ==
    (serialize(options) /\ pc = "run_workThread") =>
        /\ Cardinality(RunningThreads) <= 1
        /\ \A t \in RunningThreads : t = Len(threads)
        /\ Len(threads) = EarlierThreads + idx - 1
        /\ \A t \in Threads :
              t > EarlierThreads =>
                  threads[t].cell = all_cells[t - EarlierThreads]

\* --serial: the thread of the first host has ended and the thread of the
\* second host waits for its subprocess
C9_Witness ==
    /\ options.serializeOps /\ Len(threads) = 2
    /\ ~Running(threads[1]) /\ threads[2].pc = "child"
    /\ threads[1].cell = 1 /\ threads[2].cell = 2

\* C10: with -k and no shared password at most one host is in its key push
\* stage, or in any stage, at any moment, with or without --serial and
\* whatever the batch size
C10_KeyPushOneAtATime ==
    (options.pushKey /\ ~options.konepw) =>
        /\ Cardinality(RunningThreads) <= 1
        /\ LiveChildren <= 1

\* -k without --serial: the first host is done, the second is in its key push
C10_Witness ==
    /\ options.pushKey /\ ~options.konepw /\ ~options.serializeOps
    /\ Len(threads) = 2 /\ ~Running(threads[1])
    /\ threads[2].pc = "child" /\ threads[2].stage = 1

\* the threads started for host h in this call of copyAndExecute
StartedInCall(h) == Cardinality({t \in Threads : threads[t].cell = h})

\* C11: with a shared password in use, a host whose captured output held the
\* offending-key warning in the main pass has a thread started exactly once
\* more in that call, and a host without the warning has no second thread
C11_RetriedExactlyOnce ==
    (pc = "returned" /\ options.konepw) =>
        \A h \in Elems(cells) :
            StartedInCall(h) = IF h \in warned[1] THEN 2 ELSE 1

\* C12: a call of copyAndExecute runs at most two passes, and no host has
\* more than two threads started for it in one call, also when it shows the
\* warning again in the retry pass
C12_AtMostTwoRounds ==
    /\ round <= 2
    /\ \A h \in Hosts : StartedInCall(h) <= 2

\* the subprocess of thread t ends in this step after more than maxLines
\* lines, in a pass that is not serialized and has more than one host: the
\* thread is flagged truncated, its status is not 0, it is left with no
\* stage to run (so it reads no line any more) and with no subprocess
TruncatedStep(t, rc, n, offending) ==
    (/\ ChildEnds(t, rc, n, offending)
     /\ n > MaxLines
     /\ ~serialize(options) /\ Len(cells) > 1) =>
        /\ threads'[t].output_truncated
        /\ threads'[t].childStatus # 0
        /\ threads'[t].pc = "run"
        /\ NextStage(options, threads'[t]) = 6

\* C13: in a pass that is not serialized and has more than one host, a host
\* whose subprocess prints more than maxLines lines ends flagged truncated
\* with a nonzero status, reads no further line, and its subprocess is not
\* alive when the thread returns
C13_OverCapIsTruncated ==
    [][\A t \in Threads, rc \in RetCodes, n \in env.lineCounts,
          offending \in BOOLEAN : TruncatedStep(t, rc, n, offending)]_vars

\* C14: the list of output lines a thread stores for its host in the output
\* map has at most maxLines entries unless the thread is flagged truncated,
\* whatever stages added to it and with or without --showbanner
C14_StoredOutputWithinCap ==
    [][\A t \in Threads :
          WriteResult(t) =>
              \/ Len(output'[threads[t].cell]) <= MaxLines
              \/ threads[t].output_truncated]_vars

\* C15: when an interrupt arrives while run_workThread waits for its
\* threads, every subprocess of a thread that is still running is ended
\* before the interrupt goes on to the caller, with and without serialize and
\* whether or not a thread had spawned its subprocess: the interrupt leaves
\* no subprocess running that was not left behind before it
C15_InterruptLeavesNoOrphan ==
    [][(pc = "run_workThread" /\ pc' = "interrupted") =>
          orphans' <= orphans]_vars

\* C16: with --timeout a call of copyAndExecute always comes to its end,
\* also when the subprocess of a host never ends: the wait of its thread
\* expires and the join loop completes
C16_PassEndsWithTimeout ==
    (options.timeout /\ pc = "run_workThread")
        ~> (pc \in {"returned", "interrupted"})

\* C17: a host has the status 124 and the line "Timeout expired" in its
\* output only when --timeout was given: without it no host is reported as
\* timed out
C17_TimeoutStatusOnlyWithTimeout ==
    \A h \in DOMAIN status :
        (status[h] = 124 \/ "Timeout expired" \in Elems(output[h]))
            => options.timeout

\* the entries of list for the hosts other than cell
Without(list, cell) == SelectSeq(list, LAMBDA h : h # cell)

\* thread t times out in this step: its wait expires, or its subprocess
\* ends with the status 124 of the timeout command
TimesOut(t) ==
    \/ CommunicateExpires(t)
    \/ \E n \in env.lineCounts, offending \in BOOLEAN :
          ChildEnds(t, 124, n, offending)

\* C18: a timeout of the thread of host X leaves every other thread of the
\* call as it is (its stage, its subprocess, its status and output so far),
\* writes no result and marks no other host as unreachable or for the retry
C18_TimeoutIsHostLocal ==
    [][\A t \in Threads :
          TimesOut(t) =>
              /\ \A u \in Threads \ {t} : threads'[u] = threads[u]
              /\ Len(threads') = Len(threads)
              /\ status' = status /\ output' = output
              /\ Without(badCells', threads[t].cell)
                    = Without(badCells, threads[t].cell)
              /\ Without(cells_need_retry', threads[t].cell)
                    = Without(cells_need_retry, threads[t].cell)
              /\ waitList' = waitList]_vars

\* the wait for host X has expired, and another host of the same call, whose
\* subprocess ran meanwhile, has written its status
C18_Witness ==
    \E t, u \in Threads :
        /\ threads[t].pc = "exited"
        /\ threads[u].cell # threads[t].cell
        /\ threads[u].pc = "returned"
        /\ threads[u].cell \in DOMAIN status
        /\ ~serialize(options)

\* a stage of thread t returns in this step
StageReturns(t) ==
    /\ threads[t].pc = "child"
    /\ t \in DOMAIN threads' /\ threads'[t].pc = "run"

\* C19: a thread starts its stages in the order key push, mkdir, copy,
\* command, key drop and leaves out only the stages that are not wanted;
\* after one of the first four stages has returned a nonzero status it starts
\* none of mkdir, copy and command, and that status is the host's status
C19_StagesInOrder ==
    [][\A t \in Threads :
          /\ Spawn(t) =>
                /\ threads'[t].stage \in Stages
                /\ threads'[t].stage > threads[t].stage
                /\ StageWanted(options, threads'[t].stage)
                /\ threads[t].childStatus = 0 =>
                      \A s \in Stages :
                          (threads[t].stage < s /\ s < threads'[t].stage)
                              => ~StageWanted(options, s)
                /\ threads'[t].stage \in 2..4 => threads[t].childStatus = 0
          /\ (StageReturns(t) /\ threads[t].stage \in 1..4
                /\ threads'[t].childStatus # 0) =>
                NextStage(options, threads'[t]) \notin 2..4
          /\ (threads[t].pc = "run" /\ threads[t].stage \in 1..4
                /\ threads[t].childStatus # 0
                /\ t \in DOMAIN threads' /\ threads'[t] # threads[t]) =>
                /\ threads'[t].pc = "returned"
                /\ status'[threads[t].cell] = threads[t].childStatus]_vars

\* the copy of a host has returned a nonzero status and the command, which
\* was asked for, is not started
C19_Witness ==
    \E t \in Threads :
        /\ threads[t].pc = "run" /\ threads[t].stage = 3
        /\ threads[t].childStatus # 0
        /\ StageWanted(options, 4)

\* C20: with --unkey and a key, the key drop is started for every host whose
\* thread returns, also after an earlier stage returned a nonzero status:
\* a thread that writes its result has run the key drop as its last stage
C20_KeyDropAlwaysAttempted ==
    [][\A t \in Threads :
          (WriteResult(t) /\ StageWanted(options, 5)) =>
              threads[t].stage = 5]_vars

\* the place of the first entry of list that is x
FirstAt(list, x) ==
    CHOOSE i \in 1..Len(list) :
        list[i] = x /\ \A j \in 1..(i - 1) : list[j] # x

\* the entries buildCellList is to go through: the lines of the file that
\* are neither blank nor comments, then the entries of the -c values
Entries ==
    LET kept == {i \in 1..Len(env.file) :
                    /\ strip(env.file[i]) # << >>
                    /\ Head(strip(env.file[i])) # "#"}
        Kept[i \in 0..Len(env.file)] ==
            IF i = 0 THEN << >>
            ELSE IF i \in kept THEN Append(Kept[i - 1], strip(env.file[i]))
            ELSE Kept[i - 1]
    IN  Kept[Len(env.file)] \o inlineEntries(env.cells)

\* C21: the list buildCellList returns holds every entry of the file's host
\* lines and of the -c values, each once, in the order of their first
\* occurrences in the file followed by the -c values
C21_FirstOccurrences ==
    pc = "built" =>
        /\ Elems(clist) = Elems(Entries)
        /\ \A i, j \in 1..Len(clist) : i < j =>
              /\ clist[i] # clist[j]
              /\ FirstAt(Entries, clist[i]) < FirstAt(Entries, clist[j])

\* a host that is both in the file and in the -c value is in the list once,
\* after another host of the file
C21_Witness ==
    /\ pc = "built"
    /\ Len(clist) = 2
    /\ clist[2] \in Elems(hostLines(env.file))
    /\ clist[2] \in Elems(inlineEntries(env.cells))
    /\ Len(Entries) > 3

\* C22: without --batchsize and --serial the batch size becomes
\* max(1, (F - 10) div 7) for every descriptor limit F; with one of them
\* update_max_threads leaves the batch size as it is and returns False
C22_BatchSizeFromFdLimit ==
    (pc = "updated" /\ argv.fdLimit # None) =>
        IF argv.maxThds = 0 /\ ~argv.serializeOps
        THEN options.maxThds
                 = Max({1, (argv.fdLimit - 10) \div 7})
        ELSE options.maxThds = argv.maxThds /\ ~batch

\* the numbers among the words, in their order
Numbers(words) ==
    LET nums == SelectSeq(words, LAMBDA w : getInt(w) # None)
    IN  [i \in 1..Len(nums) |-> getInt(nums[i])]

\* C23: checkVmstat gives no repeat count (None) when a word is one of the
\* non-periodic options, a number is below 1 or there are three numbers;
\* otherwise 1 without a number, -1 (endless) with one number, which is the
\* delay, and the second number with two
C23_RepeatCount ==
    pc = "checked" =>
        LET nums == Numbers(env.vmOpts)
        IN  vmstatCount =
                IF \/ \E w \in Elems(env.vmOpts) :
                         w \in {"-f", "-s", "-m", "-p", "-D", "-d", "-V"}
                   \/ \E n \in Elems(nums) : n < 1
                   \/ Len(nums) >= 3
                THEN None
                ELSE IF Len(nums) = 0 THEN 1
                ELSE IF Len(nums) = 1 THEN -1
                ELSE nums[2]

\* a value with a periodic option between a delay and a repeat count of 2
C23_Witness ==
    /\ pc = "checked"
    /\ env.vmOpts = <<"3", "-a", "2">>
    /\ vmstatCount = 2

\* C24: in a sampling run, after a pass in which a host returned a nonzero
\* status main starts no further pass: it neither samples again nor goes on
\* to another slice or sweep
C24_ErrorStopsSampling ==
    [][(/\ pc = "returned" /\ vmstatCount # None
        /\ \E h \in DOMAIN status : status[h] # 0)
          => pc' \notin {"call", "loop"}]_vars

\* C25: in a sampling run with the repeat count R >= 1 no host is sampled
\* more than R times, and when main returns 0 (no host returned an error and
\* none was unreachable) every host of the list was sampled exactly R
\* times, without batch mode and with it
C25_SampledRTimes ==
    (vmstatCount # None /\ vmstatCount >= 1) =>
        /\ \A h \in Elems(clist) : started[h] <= vmstatCount
        /\ (pc = "done" /\ result = 0) =>
              \A h \in Elems(clist) : started[h] = vmstatCount

\* two hosts were sampled twice each, one host at a time
C25_Witness ==
    /\ pc = "done" /\ result = 0
    /\ vmstatCount = 2 /\ batch /\ options.maxThds = 1
    /\ Len(clist) = 2
    /\ \A h \in Elems(clist) : started[h] = 2

\* C26: a stage of a host spawns its subprocess once: no thread waits for a
\* second subprocess that runs the command of the stage it is in again
C26_StageSpawnsOnce ==
    \A t \in Threads : threads[t].pc = "child" => ~threads[t].latin1

\* C27: the list of unreachable hosts that copyAndExecute returns names no
\* host twice
C27_BadCellsNamedOnce ==
    pc = "returned" =>
        \A i, j \in 1..Len(badCells) : badCells[i] = badCells[j] => i = j

\* C28: when copyAndExecute returns after a retry pass, the result of every
\* host of the retry pass was written by a thread of the retry pass (the
\* threads of the main pass have all ended before the retry pass begins, so
\* the last result written is the recorded one)
C28_RetryResultRecorded ==
    (pc = "returned" /\ round = 2) =>
        \A h \in Elems(all_cells) :
            \E t \in Threads :
                /\ t > Len(cells)
                /\ threads[t].cell = h
                /\ threads[t].pc = "returned"

\* C29: an entry of the retry set is run again only if its host name or its
\* address was found in known_hosts; when its address was not resolved or
\* known_hosts was not read, nothing is raised out of copyAndExecute and
\* the host is not run again
C29_RetryOnlyWhenKnown ==
    [][\A lookups \in Lookups :
          (EndWorkThreadWith(lookups)
             /\ RetryFollows(round, cells_need_retry)) =>
              /\ pc' # "crashed"
              /\ \A i \in DOMAIN lookups :
                    LET l == lookups[i]
                        again == cells_need_retry[i] \in Elems(all_cells')
                    IN  /\ again => (l.cell_in \/ l.ip_in)
                        /\ (~l.resolved \/ l.known_hosts # "read")
                              => ~again]_vars

\* C30: with serialize or a single host of the pass the output of a
\* subprocess is not truncated, and its n lines are the lines printed with
\* the chunks followed by the lines runCommand returns, under every option
\* of the listing
C30_ChunksLoseNoLine ==
    [][\A t \in Threads, rc \in RetCodes, n \in env.lineCounts,
          offending \in BOOLEAN :
          (/\ ChildEnds(t, rc, n, offending)
           /\ display_chunks(options,
                             SerializeArg(options, threads[t].stage))) =>
              /\ ~Truncates(options, n,
                            SerializeArg(options, threads[t].stage))
              /\ ChunksPrinted(options, n)
                    \o readNLines(options, n,
                                  SerializeArg(options, threads[t].stage))
                    = Lines(n)]_vars

\* C31: the handler sends SIGKILL only to a subprocess that still runs and
\* that it has sent SIGTERM before, after the polls of the grace window, and
\* it raises KeyboardInterrupt again only after it has gone through all of
\* waitList
C31_KillOnlyAfterTerm ==
    /\ \A k \in 1..Len(handler.signals) :
          LET s == handler.signals[k]
          IN  s.sig = "SIGKILL" =>
                  /\ s.running
                  /\ s.termed
                  /\ \E j \in 1..(k - 1) :
                        /\ handler.signals[j].sig = "SIGTERM"
                        /\ handler.signals[j].thread = s.thread
    /\ handler.at = "kill" => handler.t = 0
    /\ handler.at = "raised" => handler.i > Len(waitList)

\* C32: status and output are written only by a thread that holds
\* updateLock, at most one thread is between acquire() and release() at a
\* time, the lock is free again when the thread has returned, and when
\* copyAndExecute has returned its maps hold a status and an output for the
\* same hosts
C32_WritesUnderLock ==
    [][/\ \A h \in Hosts :
             \/ /\ h \in DOMAIN status' /\ h \in DOMAIN status
                /\ status'[h] = status[h]
             \/ h \notin DOMAIN status'
             \/ \E t \in Holders : threads[t].cell = h /\ updateLock[t] = 0
       /\ \A h \in Hosts :
             \/ /\ h \in DOMAIN output' /\ h \in DOMAIN output
                /\ output'[h] = output[h]
             \/ h \notin DOMAIN output'
             \/ \E t \in Holders : threads[t].cell = h /\ updateLock[t] = 1
       /\ Cardinality(DOMAIN updateLock') <= 1
       /\ \A t \in DOMAIN updateLock' : isAlive(threads'[t])
       /\ pc' = "returned" =>
             /\ updateLock' = << >>
             /\ DOMAIN status' = DOMAIN output']_vars

\* a thread that holds updateLock has written its status and not yet its
\* output, while another thread waits for the lock
C32_Witness ==
    \E t \in Holders :
        /\ updateLock[t] = 1
        /\ threads[t].cell \in DOMAIN status
        /\ threads[t].cell \notin DOMAIN output
        /\ \E u \in Threads \ {t} :
              threads[u].pc = "run" /\ NextStage(options, threads[u]) = 6

\* C33: a host whose recorded status is 124 has the line "Timeout expired"
\* in its recorded output, whatever the options of the run are
C33_TimeoutLineRecorded ==
    \A h \in DOMAIN status :
        status[h] = 124 =>
            \E i \in DOMAIN output[h] : output[h][i] = "Timeout expired"

\* C34: what a subprocess wrote to stderr is printed or put in front of the
\* returned lines when the subprocess failed, and for a subprocess that
\* ended with status 0 only with --showbanner
C34_BannerOnlyOnPolicy ==
    [][\A t \in Threads, rc \in RetCodes, n \in env.lineCounts,
          offending \in BOOLEAN, verbose \in BOOLEAN :
          ChildEnds(t, rc, n, offending) =>
              LET banner == BannerOrError(offending)
                  l == readNLines(options, n,
                                  SerializeArg(options, threads[t].stage))
                  shown == PrintedBanner(options, verbose, rc, banner)
                  listed == WithBanner(options, l, rc, offending) # l
              IN  /\ (rc # 0 /\ banner # << >>) =>
                         (shown # << >> \/ listed)
                  /\ (rc = 0 /\ ~options.showBanner) =>
                         (shown = << >> /\ ~listed)]_vars

\* the place of host h in the list of hosts
PlaceOf(hosts, h) == CHOOSE i \in DOMAIN hosts : hosts[i] = h

\* C35: the lines that main lists after a pass come in the order of the
\* list of hosts, whatever the order in which the threads wrote their
\* results: no line of a host comes after a line of a host that is later in
\* the list
C35_ListedInHostOrder ==
    pc = "returned" =>
        LET r == Listing(clist, written, status, output,
                         options.listNegatives)
        IN  \A i, j \in DOMAIN r :
                i < j => PlaceOf(clist, r[i][1]) <= PlaceOf(clist, r[j][1])

\* two hosts have lines to list, and the later one of the list wrote its
\* result first
C35_Witness ==
    /\ pc = "returned"
    /\ \E a, b \in DOMAIN output :
          /\ PlaceOf(clist, a) < PlaceOf(clist, b)
          /\ PlaceOf(written, b) < PlaceOf(written, a)
          /\ listResults(options.listNegatives, status[a], output[a]) # << >>
          /\ listResults(options.listNegatives, status[b], output[b]) # << >>

\* C36: when only the negatives are listed, a host with a result is in the
\* summary of the hosts that are OK exactly when its status is 0, and its
\* lines are printed exactly when its status is not 0
C36_SummaryOrLines ==
    (pc = "returned" /\ options.listNegatives) =>
        \A h \in DOMAIN status :
            LET inSummary == h \in Elems(okCells(clist, status))
                printed == listResults(TRUE, status[h], <<"out">>) # << >>
            IN  /\ inSummary <=> status[h] = 0
                /\ printed <=> status[h] # 0

\* C37: when the destination ends with a separator, the directory that
\* mkdir makes on the remote host is the directory that scp copies to, for
\* a relative and an absolute destination, with and without
\* --root-exadatatmp
C37_CopyIntoMadeDir ==
    (pc = "copied" /\ endswith(env.destfile, "/")) =>
        result.made = result.copied

\* C38: what main returns is 0, 1 or 2 whatever the statuses of the hosts
\* and the number of batches are, and main's accumulated returnValue never
\* goes down from one pass to the next
C38_ReturnValueGrows ==
    [][/\ result' \in {None, 0, 1, 2}
       /\ returnValue' >= returnValue]_vars
====
